---- MODULE Spec2Model ----
(***************************************************************************)
(* The blocklist poller of tempodb (tempodb/blocklist/poller.go).          *)
(*                                                                         *)
(* One polling cycle, Poller.Do, lists the tenants of the object store and *)
(* starts one goroutine per tenant, admitted through a bounded wait group. *)
(* Each goroutine calls pollTenantAndCreateIndex in a retry loop and then, *)
(* under a mutex, records its result in the two per-tenant maps.           *)
(*                                                                         *)
(* The orchestration (Do's loop, the goroutines, cancellation, the         *)
(* failure counter) is modelled step by step.  One call of                 *)
(* pollTenantAndCreateIndex only reads and writes the keys of its own      *)
(* tenant and its own locals, so it is one action; the operators below     *)
(* compute the set of outcomes the call can have, one for every way the    *)
(* store operations can fail and every order the block goroutines of       *)
(* pollUnknown can finish in.                                              *)
(***************************************************************************)
EXTENDS Integers, Sequences, FiniteSets, TLC

\* Bounds of the model.
MaxTenants == 2
MaxBlocks == 2

TenantIDs == 1..MaxTenants
BlockIDs == 1..MaxBlocks

VARIABLES
    \* configuration and sharder (fixed during a behaviour)
    cfg,                        \* PollerConfig
    owned,                      \* jobs <<i, tenant>> the sharder answers true for
    \* the object store and the clock
    tenantList,                 \* what reader.Tenants returns
    blocks,                     \* blocks[t][b]: the objects of block b of tenant t
    tindex,                     \* tindex[t]: the tenant index object of t
    objects,                    \* objects[t]: what reader.Find walks under t
    \* the caller
    previous,                   \* the *List handed to Do
    cycle,                      \* which call of Do this is
    cyclesLeft,                 \* calls of Do still to come after this one
    cancels,                    \* the caller may cancel the context of Do
    firstOut,                   \* what the first call of Do returned
    \* Poller.Do
    dpc,                        \* position of Do
    next,                       \* index into tenantList of the loop
    cancelled,                  \* parentCtx.Err() != nil
    tenantFailuresRemaining,
    blocklist,
    compactedBlocklist,
    ret,                        \* what Do returned
    \* the goroutine of each tenant
    tpc,                        \* position of the goroutine
    consecutiveErrorsRemaining,
    result,                     \* newBlockList, newCompactedBlockList, err
    attempts,                   \* calls of pollTenantAndCreateIndex made
    calls,                      \* store operations of the last call
    before,                     \* what the last call found when it was made
    \* metrics
    metricTenantIndexErrors,    \* per tenant: increments since Do was called
    \* Poller.pollUnknown, step by step
    unk,                        \* unk[t]: the call of pollUnknown for tenant t
    \* other instances of the poller on the same store
    inst,                       \* inst[i]: the call instance i makes for a tenant
    \* history
    faulted,                    \* a store operation has returned an error
    wentStale,                  \* a tenant index went stale between two cycles
    late                        \* a call was made after the caller had cancelled

fixedVars == <<cfg, owned, tenantList, blocks>>
envVars == <<fixedVars, inst, unk>>
storeVars == <<tindex, objects>>
callerVars == <<previous, cycle, cyclesLeft, cancels, firstOut>>
doVars == <<dpc, next, cancelled, tenantFailuresRemaining, blocklist,
            compactedBlocklist, ret>>
taskVars == <<tpc, consecutiveErrorsRemaining, result, attempts, calls, before>>
histVars == <<faulted, wentStale, late>>
metricVars == <<metricTenantIndexErrors>>
vars == <<envVars, storeVars, callerVars, doVars, taskVars, histVars, metricVars>>

----------------------------------------------------------------------------
\* Helpers.

RECURSIVE SetToSeq(_)
\* The elements of a set of numbers, ascending.
SetToSeq(S) ==
    IF S = {} THEN <<>>
    ELSE LET m == CHOOSE x \in S : \A y \in S : x <= y
         IN  <<m>> \o SetToSeq(S \ {m})

Range(s) == {s[i] : i \in 1..Len(s)}

\* The sequences that list every element of S once.
Perms(S) ==
    {s \in [1..Cardinality(S) -> S] :
        \A i, j \in 1..Cardinality(S) : i # j => s[i] # s[j]}

RECURSIVE SelectMeta(_, _)
\* The metas of a list whose outcome in oc is of kind k.
SelectMeta(s, k) ==
    IF s = <<>> THEN <<>>
    ELSE IF s[1].kind = k
         THEN <<s[1].meta>> \o SelectMeta(Tail(s), k)
         ELSE SelectMeta(Tail(s), k)

EmptyMap == [t \in {} |-> <<>>]

\* m with key k set to v.
Put(m, k, v) == [x \in DOMAIN m \cup {k} |-> IF x = k THEN v ELSE m[x]]

\* A block meta.  src tells where the bytes come from: the previous list, a
\* read of the store in this cycle, or a tenant index that was in the store.
Meta(b, s) == [id |-> b, src |-> s]

Ids(list) == {list[i].id : i \in 1..Len(list)}

----------------------------------------------------------------------------
\* The object store.
\*
\* What exists of a block:
\*   "none"       nothing
\*   "live"       meta.json
\*   "nocompact"  meta.json and the nocompact flag
\*   "compacted"  meta.compacted.json
\*   "both"       meta.json and meta.compacted.json (a compaction is marking it)
\*   "gone"       listed as live, and by the time it is read only
\*                meta.compacted.json is left
\*   "limbo"      listed as live, neither meta readable
\*   "limboC"     listed as compacted, meta.compacted.json not readable
BlockStates ==
    {"none", "live", "nocompact", "compacted", "both", "gone", "limbo", "limboC"}

ListedLive(st) == st \in {"live", "nocompact", "both", "gone", "limbo"}
ListedCompacted(st) == st \in {"compacted", "both", "limboC"}
HasMeta(st) == st \in {"live", "nocompact", "both"}
HasCompactedMeta(st) == st \in {"compacted", "both", "gone"}
HasNoCompactFlag(st) == st = "nocompact"

\* What a store operation given context ctx can do: fail with an error that
\* is not ErrDoesNotExist at any time, and nothing else once ctx is cancelled.
Returns(ctx) == IF ctx THEN {"err"} ELSE {"ok", "err"}

\* The entry the store operation c leaves in the log of the calls made when
\* it returns such an error.
Failure(c) == <<"error", c[1], c[2]>>

\* Some store operation of the log cs returned such an error.
Faulty(cs) == \E c \in cs : c[1] = "error"

\* boundedwaitgroup.BoundedWaitGroup.Add(1) returns once fewer goroutines
\* than the capacity of the group hold a slot.
SlotFree(holders, capacity) == Cardinality(holders) < capacity

\* context.Background() is never cancelled.
bgCtx == FALSE

NoIndex == [exists |-> FALSE, age |-> 0, metas |-> <<>>, compacted |-> <<>>]

----------------------------------------------------------------------------
\* Poller.pollBlock: the outcomes of polling block b of tenant t, listed as
\* compacted or not.  kind is "live" (a block meta is returned), "compacted"
\* (a compacted block meta), "drop" (nil, nil, nil) or "err".

Outcome(k, b, cs) == [kind |-> k, meta |-> Meta(b, "store"), calls |-> cs]

Errored(b, cs, c) == Outcome("err", b, cs \cup {c, Failure(c)})

\* The read of a compacted block meta, were ErrDoesNotExist returned as any
\* other error is.
ReadCompactedBlockMetaStrict(st, b, cs) ==
    LET c == <<"CompactedBlockMeta", b>>
    IN  {IF r = "err" THEN Errored(b, cs, c)
         ELSE Outcome(IF HasCompactedMeta(st) THEN "compacted" ELSE "err", b,
                      cs \cup {c}) : r \in Returns(bgCtx)}

\* compactor.CompactedBlockMeta takes no context.
ReadCompactedBlockMeta(st, b, cs) ==
    LET c == <<"CompactedBlockMeta", b>>
    IN  {IF r = "err" THEN Errored(b, cs, c)
         ELSE Outcome(IF HasCompactedMeta(st) THEN "compacted" ELSE "drop", b,
                      cs \cup {c}) : r \in Returns(bgCtx)}

\* The read of a block meta, were ErrDoesNotExist not followed by the read
\* of the compacted block meta.
ReadBlockMetaNoFallback(ctx, st, b, cs) ==
    LET c == <<"BlockMeta", b>>
    IN  {IF r = "err" THEN Errored(b, cs, c)
         ELSE Outcome(IF HasMeta(st) THEN "live" ELSE "drop", b, cs \cup {c}) :
            r \in Returns(ctx)}

ReadBlockMeta(ctx, st, b, cs) ==
    LET c == <<"BlockMeta", b>>
    IN  UNION {IF r = "err" THEN {Errored(b, cs, c)}
               ELSE IF HasMeta(st) THEN {Outcome("live", b, cs \cup {c})}
               ELSE ReadCompactedBlockMeta(st, b, cs \cup {c}) : r \in Returns(ctx)}

\* Whether pollBlock asks for the nocompact flag first.
ChecksNoCompactFlag(compacted) == ~compacted /\ cfg.SkipNoCompactBlocks

pollBlock(ctx, t, b, compacted) ==
    LET st == blocks[t][b]
        read(cs) ==
            IF compacted THEN ReadCompactedBlockMeta(st, b, cs)
            ELSE ReadBlockMeta(ctx, st, b, cs)
        f == <<"HasNoCompactFlag", b>>
    IN  IF ChecksNoCompactFlag(compacted)
        THEN UNION {IF r = "err" THEN {Errored(b, {}, f)}
                    ELSE IF HasNoCompactFlag(st) THEN {Outcome("drop", b, {f})}
                    ELSE read({f}) : r \in Returns(ctx)}
        ELSE read({})

----------------------------------------------------------------------------
\* Poller.pollUnknown.  One goroutine per unknown block, admitted through a
\* bounded wait group of capacity PollConcurrency; the loop stops admitting
\* once it sees a recorded error.  A goroutine appends its meta to the live
\* or the compacted list when it finishes, so the lists are in the order the
\* goroutines finish in.

RECURSIVE BlockOutcomes(_, _, _, _)
\* The ways the blocks of U can each be polled: an outcome for every block.
BlockOutcomes(ctx, t, unknownBlocks, U) ==
    IF U = {} THEN {EmptyMap}
    ELSE LET b == CHOOSE x \in U : \A y \in U : x <= y
         IN  {Put(oc, b, o) : oc \in BlockOutcomes(ctx, t, unknownBlocks, U \ {b}),
                              o \in pollBlock(ctx, t, b, unknownBlocks[b])}

Failed(oc, A) == {b \in A : oc[b].kind = "err"}

\* The sets of blocks the loop can have admitted when some goroutine failed:
\* when the loop checks the errors before admitting one more block, no failed
\* goroutine has finished, so all of them hold a slot of the wait group.
AdmittedOnError(oc) ==
    {A \in SUBSET (DOMAIN oc) :
        /\ Failed(oc, A) # {}
        /\ Cardinality(Failed(oc, A)) <= cfg.PollConcurrency + 1}

CallsOf(oc, A) == UNION {oc[b].calls : b \in A}

pollUnknown(ctx, t, unknownBlocks) ==
    LET U == DOMAIN unknownBlocks
        ocs == BlockOutcomes(ctx, t, unknownBlocks, U)
        good == {oc \in ocs : Failed(oc, U) = {}}
        done(oc, order) == [i \in 1..Len(order) |-> oc[order[i]]]
    IN  {[metas |-> SelectMeta(done(oc, order), "live"),
          compacted |-> SelectMeta(done(oc, order), "compacted"),
          err |-> FALSE,
          calls |-> CallsOf(oc, U)] : oc \in good, order \in Perms(U)}
        \cup
        UNION {{[metas |-> <<>>, compacted |-> <<>>, err |-> TRUE,
                 calls |-> CallsOf(oc, A)] : A \in AdmittedOnError(oc)} : oc \in ocs}

----------------------------------------------------------------------------
\* Poller.pollTenantBlocks.

\* previous.Metas(t) and previous.CompactedMetas(t).
Metas(list, t) == list[t].metas
CompactedMetas(list, t) == list[t].compacted

\* mm[b] and cm[b]: the loops at lines 350-356 keep the last meta of an id.
Known(list, b) ==
    list[CHOOSE i \in 1..Len(list) :
            list[i].id = b /\ \A j \in (i + 1)..Len(list) : list[j].id # b]

RECURSIVE CarryForward(_, _)
\* The loops at lines 359-382: the listed ids that are in the previous list,
\* with their previous metas.
CarryForward(ids, list) ==
    IF ids = <<>> THEN <<>>
    ELSE IF ids[1] \in Ids(list)
         THEN <<Known(list, ids[1])>> \o CarryForward(Tail(ids), list)
         ELSE CarryForward(Tail(ids), list)

\* reader.Blocks: the ids listed as live and the ids listed as compacted.
CurrentBlockIDs(t) == SetToSeq({b \in BlockIDs : ListedLive(blocks[t][b])})
CurrentCompactedBlockIDs(t) == SetToSeq({b \in BlockIDs : ListedCompacted(blocks[t][b])})

\* unknownBlockIDs, were the previous metas not looked up.
UnknownBlockIDsAll(live, compacted, metas, compactedMetas) ==
    [b \in Range(live) \cup Range(compacted) |-> b \in Range(compacted)]

\* unknownBlockIDs: an unknown compacted id overwrites the entry of the same
\* id listed as live.
UnknownBlockIDs(live, compacted, metas, compactedMetas) ==
    LET ul == Range(live) \ Ids(metas)
        uc == Range(compacted) \ Ids(compactedMetas)
    IN  [b \in ul \cup uc |-> b \in uc]

pollTenantBlocks(ctx, t, prev) ==
    LET metas == Metas(prev, t)
        compactedMetas == CompactedMetas(prev, t)
        live == CurrentBlockIDs(t)
        compacted == CurrentCompactedBlockIDs(t)
        unknown == UnknownBlockIDs(live, compacted, metas, compactedMetas)
        listed == {<<"Blocks", 0>>}
    IN  UNION {IF r = "err"
               THEN {[metas |-> <<>>, compacted |-> <<>>, err |-> TRUE,
                      calls |-> listed \cup {Failure(<<"Blocks", 0>>)}]}
               ELSE {IF u.err
                     THEN [u EXCEPT !.calls = @ \cup listed]
                     ELSE [metas |-> CarryForward(live, metas) \o u.metas,
                           compacted |->
                               CarryForward(compacted, compactedMetas) \o u.compacted,
                           err |-> FALSE,
                           calls |-> u.calls \cup listed] :
                        u \in pollUnknown(ctx, t, unknown)} : r \in Returns(ctx)}

----------------------------------------------------------------------------
\* Poller.deleteTenant, given the tenant index idx and the objects objs that
\* are in the store when it runs.

\* The age test of the walk, were every object to pass it.
OldEnoughAlways(o) == TRUE

\* time.Since(opts.Modified) > EmptyTenantDeletionAge
OldEnough(o) == o.age > cfg.EmptyTenantDeletionAge

\* The loop at lines 579-586 over the objects found, in the order of the
\* walk: every delete can fail, and a failure ends the loop.
DeleteObjects(ctx, objs, found) ==
    LET n == Len(found)
        removed(k) == {o \in objs : \E i \in 1..k : found[i] = o.key}
        called(k) == {<<"Delete", found[i]>> : i \in 1..k}
        failing == IF "err" \notin Returns(ctx) THEN {}
                   ELSE IF "ok" \in Returns(ctx) THEN 1..n ELSE 1..n \cap {1}
    IN  {[err |-> TRUE, objects |-> removed(k - 1),
          calls |-> called(k) \cup {Failure(<<"Delete", found[k]>>)}] : k \in failing}
        \cup
        (IF "ok" \notin Returns(ctx) /\ n > 0 THEN {}
         ELSE {[err |-> FALSE, objects |-> removed(n), calls |-> called(n)]})

deleteTenant(ctx, t, idx, objs) ==
    LET nothing(e, cs) == [err |-> e, objects |-> objs, calls |-> cs]
        found == SetToSeq({o.key : o \in {x \in objs : OldEnough(x)}})
        recentObjects == Cardinality({o \in objs : ~OldEnough(o)})
        walked == {<<"Find", 0>>}
        reread == walked \cup {<<"TenantIndex.deleteTenant", 0>>}
    IN  IF ~cfg.EmptyTenantDeletionEnabled THEN {nothing(FALSE, {})}
        ELSE IF cfg.EmptyTenantDeletionAge = 0 THEN {nothing(TRUE, {})}
        ELSE UNION {
               IF r = "err" THEN {nothing(TRUE, walked \cup {Failure(<<"Find", 0>>)})}
               ELSE IF recentObjects > 0 THEN {nothing(FALSE, walked)}
               ELSE UNION {
                      IF q = "err"
                      THEN {nothing(FALSE,
                                    reread \cup {Failure(<<"TenantIndex.deleteTenant", 0>>)})}
                      ELSE IF idx.exists THEN {nothing(FALSE, reread)}
                      ELSE {[err |-> d.err,
                             objects |-> objs \ d.objects,
                             calls |-> reread \cup d.calls] :
                                d \in DeleteObjects(ctx, objs, found)} :
                         q \in Returns(ctx)} : r \in Returns(ctx)}

----------------------------------------------------------------------------
\* Poller.tenantIndexBuilder and Poller.tenantIndexPollError.

\* sharder.Owns(jobPrefix + strconv.Itoa(i) + "-" + tenant)
Owns(i, t) == <<i, t>> \in owned

\* Whether this instance builds the index, were only the first job asked for.
tenantIndexBuilderFirstJob(t) == Owns(0, t)

tenantIndexBuilder(t) ==
    \E i \in 0..(cfg.TenantIndexBuilders - 1) : Owns(i, t)

\* The staleness of an index, were an unset StaleTenantIndex not exempted.
StaleWhenUnset(idx) == idx.age > cfg.StaleTenantIndex

\* time.Since(idx.CreatedAt) > StaleTenantIndex, when StaleTenantIndex is set.
Stale(idx) == cfg.StaleTenantIndex # 0 /\ idx.age > cfg.StaleTenantIndex

\* reader.TenantIndex: the errors it can return for the index object idx.
ReadTenantIndex(ctx, idx) ==
    {IF r = "err" THEN "error" ELSE IF idx.exists THEN "nil" ELSE "DoesNotExist" :
        r \in Returns(ctx)}

\* The error of a pull, were the age of the index not looked at.
tenantIndexPollErrorAnyAge(idx, err) == err

tenantIndexPollError(idx, err) ==
    IF err # "nil" THEN err
    ELSE IF Stale(idx) THEN "stale"
    ELSE "nil"

----------------------------------------------------------------------------
\* Poller.pollTenantAndCreateIndex.  An outcome holds what the call returns
\* (metas, compacted, err), the store operations it made, and the tenant
\* index and the objects it leaves in the store.

\* writer.WriteTenantIndex: the index after the call.
WriteTenantIndex(ctx, idx, metas, compacted) ==
    {IF r = "err"
     THEN [index |-> idx,
           calls |-> {<<"WriteTenantIndex", 0>>, Failure(<<"WriteTenantIndex", 0>>)}]
     ELSE [index |-> [exists |-> TRUE, age |-> 0, metas |-> metas,
                      compacted |-> compacted],
           calls |-> {<<"WriteTenantIndex", 0>>}] : r \in Returns(ctx)}

\* What a call that fails returns.
FailedAttempt(e, c, i, o) ==
    [metas |-> <<>>, compacted |-> <<>>, err |-> e, calls |-> c, index |-> i,
     objects |-> o]

\* The write of the index of the lists p, were its error returned.
WrittenStrict(ctx, idx, p) ==
    {[lists |-> p, index |-> w.index, calls |-> w.calls,
      err |-> IF Faulty(w.calls) THEN "writeTenantIndex" ELSE "nil"] :
        w \in WriteTenantIndex(ctx, idx, p.metas, p.compacted)}

\* Lines 304-310: the index of the lists p is written; an error of the
\* write is logged and dropped.
Written(ctx, idx, p) ==
    {[lists |-> p, index |-> w.index, calls |-> w.calls, err |-> "nil"] :
        w \in WriteTenantIndex(ctx, idx, p.metas, p.compacted)}

\* Lines 312-321: after the write w, the reaper runs when both lists are
\* empty, and the lists are returned.
Reaped(ctx, t, w, objs, cs) ==
    LET c == cs \cup w.lists.calls \cup w.calls
    IN  IF w.err # "nil" THEN {FailedAttempt(w.err, c, w.index, objs)}
        ELSE IF Len(w.lists.metas) = 0 /\ Len(w.lists.compacted) = 0
        THEN {IF d.err
              THEN FailedAttempt("deleteTenant", c \cup d.calls, w.index, d.objects)
              ELSE [metas |-> w.lists.metas, compacted |-> w.lists.compacted,
                    err |-> "nil", calls |-> c \cup d.calls,
                    index |-> w.index, objects |-> d.objects] :
                 d \in deleteTenant(ctx, t, w.index, objs)}
        ELSE {[metas |-> w.lists.metas, compacted |-> w.lists.compacted,
               err |-> "nil", calls |-> c, index |-> w.index, objects |-> objs]}

\* What follows the poll p of the blocks, were the index written before the
\* error of the poll is looked at.
AfterPollWritesAnyway(ctx, t, p, idx, objs, cs) ==
    UNION {IF p.err
           THEN {FailedAttempt("pollTenantBlocks", cs \cup p.calls \cup w.calls,
                               w.index, objs)}
           ELSE Reaped(ctx, t, w, objs, cs) : w \in Written(ctx, idx, p)}

\* Lines 300-321: what follows the poll p of the blocks.
AfterPoll(ctx, t, p, idx, objs, cs) ==
    IF p.err
    THEN {FailedAttempt("pollTenantBlocks", cs \cup p.calls, idx, objs)}
    ELSE UNION {Reaped(ctx, t, w, objs, cs) : w \in Written(ctx, idx, p)}

\* Lines 295-321: the path of a builder.
BuildTenantIndex(ctx, t, prev, idx, objs, cs) ==
    UNION {AfterPoll(ctx, t, p, idx, objs, cs) : p \in pollTenantBlocks(ctx, t, prev)}

\* Whether a failed pull is followed by a poll, were the option inverted.
FallsBackInverted == ~cfg.PollFallback

\* Whether a failed pull of the tenant index is followed by a poll.
FallsBack == cfg.PollFallback

pollTenantAndCreateIndex(ctx, t, prev, idx, objs) ==
    LET pulled(e) ==
            LET pull == {<<"TenantIndex", 0>>} \cup
                            (IF e = "error" THEN {Failure(<<"TenantIndex", 0>>)} ELSE {})
            IN
            IF tenantIndexPollError(idx, e) = "nil"
            THEN {[metas |-> idx.metas, compacted |-> idx.compacted, err |-> "nil",
                   calls |-> pull, index |-> idx, objects |-> objs]}
            ELSE IF ~FallsBack
            THEN {[metas |-> <<>>, compacted |-> <<>>, err |-> "noFallback",
                   calls |-> pull, index |-> idx, objects |-> objs]}
            ELSE BuildTenantIndex(ctx, t, prev, idx, objs, pull)
    IN  IF tenantIndexBuilder(t)
        THEN BuildTenantIndex(ctx, t, prev, idx, objs, {})
        ELSE UNION {pulled(e) : e \in ReadTenantIndex(ctx, idx)}

----------------------------------------------------------------------------
\* Poller.Do.

NotReturned ==
    [err |-> "pending", maps |-> "nil", blocklist |-> EmptyMap,
     compactedBlocklist |-> EmptyMap]

Returned(bl, cbl) ==
    [err |-> "nil", maps |-> "set", blocklist |-> bl, compactedBlocklist |-> cbl]

ReturnedError(e) ==
    [err |-> e, maps |-> "nil", blocklist |-> EmptyMap, compactedBlocklist |-> EmptyMap]

NoResult == [metas |-> <<>>, compacted |-> <<>>, err |-> "nil"]

\* No call of pollTenantAndCreateIndex was made yet.
NothingFound == [index |-> NoIndex, objects |-> {}]

\* The goroutines in flight, were wg.Done() called before the retry loop.
InFlightNone == {}

\* The goroutines in flight, were wg.Done() called when the retry loop ends.
InFlightLoopOnly == {t \in TenantIDs : tpc[t] = "loop"}

\* The goroutines in flight, were wg.Done() never called.
InFlightNeverDone == {t \in TenantIDs : tpc[t] # "idle"}

\* The goroutines that hold a slot of the wait group wg.
InFlight == {t \in TenantIDs : tpc[t] \in {"loop", "publish", "exit"}}

\* The check of the tolerance, were it to fail a cycle with nothing left.
TooManyFailuresAtZero(remaining) == remaining <= 0

\* The check of the tolerance, were it to allow one failing tenant more.
TooManyFailuresLate(remaining) == remaining < -1

\* The check of the tolerance, were it left out.
TooManyFailuresNever(remaining) == FALSE

\* Line 180 and line 246: the tolerance for failing tenants is exceeded.
TooManyFailures(remaining) == remaining < 0

\* The label of metricBlocklistErrors that names no tenant ("").
NoTenant == 0

\* The increments of metricBlocklistErrors under a label since Do was
\* called: line 154, when the listing of the tenants failed, is the only one.
metricBlocklistErrors(label) ==
    IF label = NoTenant /\ ret.err = "tenants" THEN 1 ELSE 0

\* Lines 152-169: list the tenants and set up the cycle.
DoTenants ==
    /\ dpc = "start"
    /\ \E r \in Returns(cancelled) :
          IF r = "err"
          THEN /\ dpc' = "done"
               /\ faulted' = TRUE
               /\ ret' = ReturnedError("tenants")
               /\ UNCHANGED <<next, tenantFailuresRemaining, blocklist, compactedBlocklist>>
          ELSE /\ dpc' = "check"
               /\ next' = 1
               /\ tenantFailuresRemaining' = cfg.TolerateTenantFailures
               /\ blocklist' = EmptyMap
               /\ compactedBlocklist' = EmptyMap
               /\ UNCHANGED <<ret, faulted>>
    /\ UNCHANGED <<envVars, storeVars, callerVars, taskVars, cancelled, wentStale, late, metricVars>>

\* Lines 171-183: the head of the loop over the tenants.
DoCheck ==
    /\ dpc = "check"
    /\ dpc' = IF next > Len(tenantList) THEN "wait"
              ELSE IF cancelled THEN "cancelWait"
              ELSE IF TooManyFailures(tenantFailuresRemaining) THEN "wait"
              ELSE "add"
    /\ UNCHANGED <<envVars, storeVars, callerVars, taskVars, histVars, metricVars, next, cancelled,
                   tenantFailuresRemaining, blocklist, compactedBlocklist, ret>>

\* Lines 185-186: wg.Add(1) returns once a slot is free, and the goroutine
\* of the tenant starts.
DoAdd ==
    /\ dpc = "add"
    /\ SlotFree(InFlight, cfg.TenantPollConcurrency)
    /\ LET t == tenantList[next]
       IN  /\ tpc' = [tpc EXCEPT ![t] = "loop"]
           /\ consecutiveErrorsRemaining' =
                  [consecutiveErrorsRemaining EXCEPT ![t] = cfg.TolerateConsecutiveErrors]
           /\ result' = [result EXCEPT ![t] = NoResult]
    /\ next' = next + 1
    /\ dpc' = "check"
    /\ UNCHANGED <<envVars, storeVars, callerVars, histVars, metricVars, attempts, calls, before,
                   cancelled, tenantFailuresRemaining, blocklist, compactedBlocklist,
                   ret>>

\* Lines 175-176: wg.Wait() after the loop saw the cancellation.
DoCancelled ==
    /\ dpc = "cancelWait"
    /\ InFlight = {}
    /\ dpc' = "done"
    /\ ret' = ReturnedError("canceled")
    /\ UNCHANGED <<envVars, storeVars, callerVars, taskVars, histVars, metricVars, next, cancelled,
                   tenantFailuresRemaining, blocklist, compactedBlocklist>>

\* Lines 244-254: wg.Wait() after the loop, and the result.
DoWait ==
    /\ dpc = "wait"
    /\ InFlight = {}
    /\ dpc' = "done"
    /\ ret' = IF TooManyFailures(tenantFailuresRemaining)
              THEN ReturnedError("tooManyFailures")
              ELSE Returned(blocklist, compactedBlocklist)
    /\ UNCHANGED <<envVars, storeVars, callerVars, taskVars, histVars, metricVars, next, cancelled,
                   tenantFailuresRemaining, blocklist, compactedBlocklist>>

\* The caller cancels the context it gave to Do.
Cancel ==
    /\ cancels
    /\ dpc # "done"
    /\ ~cancelled
    /\ cancelled' = TRUE
    /\ UNCHANGED <<envVars, storeVars, callerVars, taskVars, histVars, metricVars, dpc, next,
                   tenantFailuresRemaining, blocklist, compactedBlocklist, ret>>

----------------------------------------------------------------------------
\* The goroutine of tenant t (lines 186-241).

\* The condition of the retry loop, were it to stop one attempt early.
RetriesOneLess(remaining) == remaining > 0

\* Line 202: the retry loop goes on.
Retries(remaining) == remaining >= 0

\* The context of the goroutine, were it the one of the caller.
TaskCtxParent == cancelled

\* The context the goroutine hands to pollTenantAndCreateIndex (line 203).
TaskCtx == bgCtx

\* The increments of metricTenantIndexErrors for the tenant in a call with
\* outcome o: one when the pull of the index failed (line 283), one when
\* pollUnknown recorded an error (line 453), one when the write of the index
\* failed (line 308).
TenantIndexErrors(o) ==
    LET pullFailed ==
            /\ <<"TenantIndex", 0>> \in o.calls
            /\ o.err = "noFallback" \/ <<"Blocks", 0>> \in o.calls
        unknownFailed ==
            \E c \in o.calls :
                /\ c[1] = "error"
                /\ c[2] \in {"HasNoCompactFlag", "BlockMeta", "CompactedBlockMeta"}
        writeFailed == Failure(<<"WriteTenantIndex", 0>>) \in o.calls
    IN  (IF pullFailed THEN 1 ELSE 0) + (IF unknownFailed THEN 1 ELSE 0)
            + (IF writeFailed THEN 1 ELSE 0)

\* Lines 204-208: the call for tenant t returns the outcome o.
Return(t, o) ==
    /\ result' = [result EXCEPT ![t] =
                      [metas |-> o.metas, compacted |-> o.compacted, err |-> o.err]]
    /\ calls' = [calls EXCEPT ![t] = o.calls]
    /\ faulted' = (faulted \/ Faulty(o.calls))
    /\ tindex' = [tindex EXCEPT ![t] = o.index]
    /\ objects' = [objects EXCEPT ![t] = o.objects]
    /\ IF o.err = "nil"
       THEN /\ tpc' = [tpc EXCEPT ![t] = "publish"]
            /\ UNCHANGED consecutiveErrorsRemaining
       ELSE /\ consecutiveErrorsRemaining' =
                   [consecutiveErrorsRemaining EXCEPT ![t] = @ - 1]
            /\ UNCHANGED tpc
    /\ attempts' = [attempts EXCEPT ![t] = @ + 1]
    /\ before' = [before EXCEPT ![t] = [index |-> tindex[t], objects |-> objects[t]]]
    /\ late' = (late \/ cancelled)
    /\ metricTenantIndexErrors' =
           [metricTenantIndexErrors EXCEPT ![t] = @ + TenantIndexErrors(o)]

\* Lines 202-209: one call of pollTenantAndCreateIndex.
Attempt(t) ==
    /\ tpc[t] = "loop"
    /\ Retries(consecutiveErrorsRemaining[t])
    /\ \E o \in pollTenantAndCreateIndex(TaskCtx, t, previous, tindex[t], objects[t]) :
          Return(t, o)
    /\ UNCHANGED <<envVars, callerVars, doVars, wentStale>>

\* Line 202: the retries are used up.
GiveUp(t) ==
    /\ tpc[t] = "loop"
    /\ ~Retries(consecutiveErrorsRemaining[t])
    /\ tpc' = [tpc EXCEPT ![t] = "publish"]
    /\ UNCHANGED <<envVars, storeVars, callerVars, doVars, histVars, metricVars,
                   consecutiveErrorsRemaining, result, attempts, calls, before>>

\* The entries of a failed tenant, were the previous ones not copied.
PreviousEntriesNone(prev, t) == [metas |-> <<>>, compacted |-> <<>>]

\* The entries of a failed tenant, were only the live metas copied.
PreviousEntriesLiveOnly(prev, t) == [metas |-> Metas(prev, t), compacted |-> <<>>]

\* Lines 216-217: the entries a failed tenant gets.
PreviousEntries(prev, t) ==
    [metas |-> Metas(prev, t), compacted |-> CompactedMetas(prev, t)]

\* Whether the tenant gets an entry, were only the live list looked at.
HasBlocksLiveOnly(r) == Len(r.metas) > 0

\* Line 224: the tenant gets an entry.
HasBlocks(r) == Len(r.metas) > 0 \/ Len(r.compacted) > 0

\* Lines 211-240, under mtx: record the result of the tenant.
Publish(t) ==
    /\ tpc[t] = "publish"
    /\ IF result[t].err # "nil"
       THEN /\ blocklist' = Put(blocklist, t, PreviousEntries(previous, t).metas)
            /\ compactedBlocklist' =
                   Put(compactedBlocklist, t, PreviousEntries(previous, t).compacted)
            /\ tenantFailuresRemaining' = tenantFailuresRemaining - 1
       ELSE IF HasBlocks(result[t])
       THEN /\ blocklist' = Put(blocklist, t, result[t].metas)
            /\ compactedBlocklist' = Put(compactedBlocklist, t, result[t].compacted)
            /\ UNCHANGED tenantFailuresRemaining
       ELSE UNCHANGED <<blocklist, compactedBlocklist, tenantFailuresRemaining>>
    /\ tpc' = [tpc EXCEPT ![t] = "exit"]
    /\ UNCHANGED <<envVars, storeVars, callerVars, histVars, metricVars, dpc, next, cancelled,
                   ret, consecutiveErrorsRemaining, result, attempts, calls, before>>

\* Line 187: the deferred wg.Done().
TaskDone(t) ==
    /\ tpc[t] = "exit"
    /\ tpc' = [tpc EXCEPT ![t] = "finished"]
    /\ UNCHANGED <<envVars, storeVars, callerVars, doVars, histVars, metricVars,
                   consecutiveErrorsRemaining, result, attempts, calls, before>>

----------------------------------------------------------------------------
\* The caller: after a cycle that succeeded it applies the two maps to its
\* list and, later, calls Do again with that list.

MaxAge == 2

\* List.ApplyPollResults followed by List.Metas and List.CompactedMetas.
Applied(bl, cbl) ==
    [t \in TenantIDs |->
        [metas |-> IF t \in DOMAIN bl THEN bl[t] ELSE <<>>,
         compacted |-> IF t \in DOMAIN cbl THEN cbl[t] ELSE <<>>]]

\* The tenant indexes once d units of time have passed.
Aged(idx, d) ==
    [t \in TenantIDs |->
        IF idx[t].exists /\ idx[t].age + d <= MaxAge
        THEN [idx[t] EXCEPT !.age = @ + d]
        ELSE idx[t]]

NextCycle ==
    /\ dpc = "done"
    /\ cyclesLeft > 0
    /\ ret.err = "nil"
    /\ previous' = Applied(ret.blocklist, ret.compactedBlocklist)
    /\ firstOut' = ret
    /\ cycle' = cycle + 1
    /\ cyclesLeft' = cyclesLeft - 1
    /\ \E d \in {0, 1} :
          /\ tindex' = Aged(tindex, d)
          /\ wentStale' = \E t \in TenantIDs :
                 tindex[t].exists /\ ~Stale(tindex[t]) /\ Stale(Aged(tindex, d)[t])
    /\ dpc' = "start"
    /\ next' = 1
    /\ cancelled' = FALSE
    /\ tenantFailuresRemaining' = 0
    /\ blocklist' = EmptyMap
    /\ compactedBlocklist' = EmptyMap
    /\ ret' = NotReturned
    /\ tpc' = [t \in TenantIDs |-> "idle"]
    /\ consecutiveErrorsRemaining' = [t \in TenantIDs |-> 0]
    /\ result' = [t \in TenantIDs |-> NoResult]
    /\ attempts' = [t \in TenantIDs |-> 0]
    /\ calls' = [t \in TenantIDs |-> {}]
    /\ before' = [t \in TenantIDs |-> NothingFound]
    /\ metricTenantIndexErrors' = [t \in TenantIDs |-> 0]
    /\ UNCHANGED <<envVars, objects, cancels, faulted, late>>

----------------------------------------------------------------------------
\* One call of pollTenantAndCreateIndex step by step: the loop of pollUnknown
\* and the goroutines it starts, one for every unknown block.

NoList == [metas |-> <<>>, compacted |-> <<>>]

\* pollUnknown is not running for the tenant.
NotPolling ==
    [pc |-> "idle", unknown |-> EmptyMap, pending |-> {}, bpc |-> EmptyMap,
     newBlockList |-> <<>>, newCompactedBlocklist |-> <<>>, errs |-> {},
     carried |-> NoList, calls |-> {}]

\* The goroutines of pollUnknown that hold a slot, were the slot given back
\* before the result is recorded.
BlocksInFlightEarlyDone(t) == {b \in DOMAIN unk[t].bpc : unk[t].bpc[b] = "run"}

\* The goroutines of pollUnknown that hold a slot of the wait group bg.
BlocksInFlight(t) == {b \in DOMAIN unk[t].bpc : unk[t].bpc[b] \in {"run", "exit"}}

fineOtherVars == <<fixedVars, inst, callerVars, doVars, wentStale>>

\* Lines 266-336: a call that returns without a listing of the blocks that
\* succeeded.
AttemptShort(t) ==
    /\ tpc[t] = "loop"
    /\ Retries(consecutiveErrorsRemaining[t])
    /\ unk[t].pc = "idle"
    /\ \E o \in pollTenantAndCreateIndex(TaskCtx, t, previous, tindex[t], objects[t]) :
          /\ <<"Blocks", 0>> \notin o.calls \/ Failure(<<"Blocks", 0>>) \in o.calls
          /\ Return(t, o)
    /\ UNCHANGED <<fineOtherVars, unk>>

\* Lines 266-414: a call that lists the blocks and enters pollUnknown, as a
\* builder or after a pull of the index that failed.
AttemptList(t) ==
    /\ tpc[t] = "loop"
    /\ Retries(consecutiveErrorsRemaining[t])
    /\ unk[t].pc = "idle"
    /\ LET idx == tindex[t]
           pull(e) == {<<"TenantIndex", 0>>} \cup
                          (IF e = "error" THEN {Failure(<<"TenantIndex", 0>>)} ELSE {})
           paths == IF tenantIndexBuilder(t) THEN {{}}
                    ELSE {pull(e) : e \in {x \in ReadTenantIndex(TaskCtx, idx) :
                                              /\ tenantIndexPollError(idx, x) # "nil"
                                              /\ FallsBack}}
           metas == Metas(previous, t)
           compactedMetas == CompactedMetas(previous, t)
           live == CurrentBlockIDs(t)
           compacted == CurrentCompactedBlockIDs(t)
           unknown == UnknownBlockIDs(live, compacted, metas, compactedMetas)
       IN  /\ "ok" \in Returns(TaskCtx)
           /\ \E cs \in paths :
                 unk' = [unk EXCEPT ![t] =
                            [NotPolling EXCEPT
                                !.pc = "check",
                                !.unknown = unknown,
                                !.pending = DOMAIN unknown,
                                !.bpc = [b \in DOMAIN unknown |-> "idle"],
                                !.carried =
                                    [metas |-> CarryForward(live, metas),
                                     compacted |-> CarryForward(compacted, compactedMetas)],
                                !.calls = cs \cup {<<"Blocks", 0>>}]]
    /\ UNCHANGED <<fineOtherVars, storeVars, taskVars, faulted, late, metricVars>>

\* The test of the recorded errors, were it left out.
ErrorsRecordedNever(errs) == FALSE

\* Line 417: len(errs) > 0.
ErrorsRecorded(errs) == errs # {}

\* Lines 415-423: the head of the loop over the unknown blocks.
UnknownCheck(t) ==
    /\ unk[t].pc = "check"
    /\ unk' = [unk EXCEPT ![t].pc =
                  IF ErrorsRecorded(unk[t].errs) \/ unk[t].pending = {}
                  THEN "wait" ELSE "add"]
    /\ UNCHANGED <<fineOtherVars, storeVars, taskVars, faulted, late, metricVars>>

\* Lines 425-426: bg.Add(1) returns once a slot is free, and the goroutine
\* of block b starts.
UnknownAdd(t, b) ==
    /\ unk[t].pc = "add"
    /\ b \in unk[t].pending
    /\ SlotFree(BlocksInFlight(t), cfg.PollConcurrency)
    /\ unk' = [unk EXCEPT ![t].pc = "check",
                          ![t].pending = @ \ {b},
                          ![t].bpc[b] = "run"]
    /\ UNCHANGED <<fineOtherVars, storeVars, taskVars, faulted, late, metricVars>>

\* Lines 433-447: the goroutine of block b polls the block and, under mtx,
\* records what it got.
BlockPoll(t, b) ==
    /\ unk[t].pc # "idle"
    /\ b \in DOMAIN unk[t].bpc
    /\ unk[t].bpc[b] = "run"
    /\ \E o \in pollBlock(TaskCtx, t, b, unk[t].unknown[b]) :
          unk' = [unk EXCEPT
                     ![t].bpc[b] = "exit",
                     ![t].calls = @ \cup o.calls,
                     ![t].newBlockList =
                         IF o.kind = "live" THEN Append(@, o.meta) ELSE @,
                     ![t].newCompactedBlocklist =
                         IF o.kind = "compacted" THEN Append(@, o.meta) ELSE @,
                     ![t].errs = IF o.kind = "err" THEN @ \cup {b} ELSE @]
    /\ UNCHANGED <<fineOtherVars, storeVars, taskVars, faulted, late, metricVars>>

\* Line 427: the deferred bg.Done().
BlockDone(t, b) ==
    /\ unk[t].pc # "idle"
    /\ b \in DOMAIN unk[t].bpc
    /\ unk[t].bpc[b] = "exit"
    /\ unk' = [unk EXCEPT ![t].bpc[b] = "done"]
    /\ UNCHANGED <<fineOtherVars, storeVars, taskVars, faulted, late, metricVars>>

\* Lines 450-461, 385-392 and 300-321: bg.Wait(), the result of pollUnknown
\* and of pollTenantBlocks, and the rest of the call.
UnknownWait(t) ==
    /\ unk[t].pc = "wait"
    /\ BlocksInFlight(t) = {}
    /\ LET u == unk[t]
           p == IF u.errs # {}
                THEN [metas |-> <<>>, compacted |-> <<>>, err |-> TRUE, calls |-> u.calls]
                ELSE [metas |-> u.carried.metas \o u.newBlockList,
                      compacted |-> u.carried.compacted \o u.newCompactedBlocklist,
                      err |-> FALSE, calls |-> u.calls]
       IN  \E o \in AfterPoll(TaskCtx, t, p, tindex[t], objects[t], {}) : Return(t, o)
    /\ unk' = [unk EXCEPT ![t] = NotPolling]
    /\ UNCHANGED fineOtherVars

----------------------------------------------------------------------------
\* Several instances of the poller that poll the same tenant of the same
\* store at the same time, each with its own previous list.  Every instance
\* makes one call of pollTenantAndCreateIndex, in four steps: the pull of
\* the index, the listing of the blocks, the reads of the unknown blocks,
\* and the write of the index with what follows it.

MaxInstances == 2

Instances == 1..MaxInstances

Absent ==
    [pc |-> "none", previous |-> NoList, lists |-> NoList, unknown |-> EmptyMap,
     result |-> NoResult, calls |-> {}]

\* The tenant the instances poll.
Shared == tenantList[1]

\* The previous list of instance i.
PreviousOfInstance(i) == [t \in TenantIDs |-> inst[i].previous]

\* Instance i returns r from its call.
InstReturn(i, r, cs) ==
    [inst EXCEPT ![i].pc = "done",
                 ![i].result = [metas |-> r.metas, compacted |-> r.compacted,
                                err |-> r.err],
                 ![i].calls = cs]

instOtherVars == <<fixedVars, unk, callerVars, doVars, taskVars, histVars, metricVars>>

\* Lines 266-293: a builder goes on to poll; another instance pulls the index.
InstPull(i) ==
    /\ inst[i].pc = "pull"
    /\ IF tenantIndexBuilder(Shared)
       THEN inst' = [inst EXCEPT ![i].pc = "list"]
       ELSE \E e \in ReadTenantIndex(bgCtx, tindex[Shared]) :
               LET idx == tindex[Shared]
                   pull == {<<"TenantIndex", 0>>} \cup
                              (IF e = "error" THEN {Failure(<<"TenantIndex", 0>>)} ELSE {})
               IN  IF tenantIndexPollError(idx, e) = "nil"
                   THEN inst' = InstReturn(i, [metas |-> idx.metas,
                                               compacted |-> idx.compacted,
                                               err |-> "nil"], pull)
                   ELSE IF ~FallsBack
                   THEN inst' = InstReturn(i, [NoResult EXCEPT !.err = "noFallback"],
                                           pull)
                   ELSE inst' = [inst EXCEPT ![i].pc = "list", ![i].calls = pull]
    /\ UNCHANGED <<instOtherVars, storeVars>>

\* Lines 332-382: the listing of the blocks, and what previous holds of them.
InstList(i) ==
    /\ inst[i].pc = "list"
    /\ LET metas == Metas(PreviousOfInstance(i), Shared)
           compactedMetas == CompactedMetas(PreviousOfInstance(i), Shared)
           live == CurrentBlockIDs(Shared)
           compacted == CurrentCompactedBlockIDs(Shared)
           cs == inst[i].calls \cup {<<"Blocks", 0>>}
       IN  \E r \in Returns(bgCtx) :
              IF r = "err"
              THEN inst' = InstReturn(i, [NoResult EXCEPT !.err = "pollTenantBlocks"],
                                      cs \cup {Failure(<<"Blocks", 0>>)})
              ELSE inst' = [inst EXCEPT
                               ![i].pc = "read",
                               ![i].lists =
                                   [metas |-> CarryForward(live, metas),
                                    compacted |-> CarryForward(compacted, compactedMetas)],
                               ![i].unknown =
                                   UnknownBlockIDs(live, compacted, metas, compactedMetas),
                               ![i].calls = cs]
    /\ UNCHANGED <<instOtherVars, storeVars>>

\* Lines 384-392: pollUnknown, and the lists of pollTenantBlocks.
InstRead(i) ==
    /\ inst[i].pc = "read"
    /\ \E u \in pollUnknown(bgCtx, Shared, inst[i].unknown) :
          IF u.err
          THEN inst' = InstReturn(i, [NoResult EXCEPT !.err = "pollTenantBlocks"],
                                  inst[i].calls \cup u.calls)
          ELSE inst' = [inst EXCEPT
                           ![i].pc = "write",
                           ![i].lists = [metas |-> @.metas \o u.metas,
                                         compacted |-> @.compacted \o u.compacted],
                           ![i].calls = @ \cup u.calls]
    /\ UNCHANGED <<instOtherVars, storeVars>>

\* Lines 304-321: the write of the index, the reaper, and the return.
InstWrite(i) ==
    /\ inst[i].pc = "write"
    /\ LET p == [metas |-> inst[i].lists.metas, compacted |-> inst[i].lists.compacted,
                 err |-> FALSE, calls |-> inst[i].calls]
       IN  \E o \in AfterPoll(bgCtx, Shared, p, tindex[Shared], objects[Shared], {}) :
              /\ inst' = InstReturn(i, o, o.calls)
              /\ tindex' = [tindex EXCEPT ![Shared] = o.index]
              /\ objects' = [objects EXCEPT ![Shared] = o.objects]
    /\ UNCHANGED instOtherVars

----------------------------------------------------------------------------
\* The initial states: a configuration, a store and a previous list.

Config(k, tce, tc, pc, fb, builders, stale, enabled, age, skip) ==
    [TolerateTenantFailures |-> k,
     TolerateConsecutiveErrors |-> tce,
     TenantPollConcurrency |-> tc,
     PollConcurrency |-> pc,
     PollFallback |-> fb,
     TenantIndexBuilders |-> builders,
     StaleTenantIndex |-> stale,
     EmptyTenantDeletionEnabled |-> enabled,
     EmptyTenantDeletionAge |-> age,
     SkipNoCompactBlocks |-> skip]

Start(c, own, tl, blk, idx, objs, prev, more, cn) ==
    /\ cfg = c
    /\ owned = own
    /\ tenantList = tl
    /\ blocks = blk
    /\ tindex = idx
    /\ objects = objs
    /\ previous = prev
    /\ cycle = 1
    /\ cyclesLeft = more
    /\ cancels = cn
    /\ firstOut = NotReturned
    /\ dpc = "start"
    /\ next = 1
    /\ cancelled = FALSE
    /\ tenantFailuresRemaining = 0
    /\ blocklist = EmptyMap
    /\ compactedBlocklist = EmptyMap
    /\ ret = NotReturned
    /\ tpc = [t \in TenantIDs |-> "idle"]
    /\ consecutiveErrorsRemaining = [t \in TenantIDs |-> 0]
    /\ result = [t \in TenantIDs |-> NoResult]
    /\ attempts = [t \in TenantIDs |-> 0]
    /\ calls = [t \in TenantIDs |-> {}]
    /\ before = [t \in TenantIDs |-> NothingFound]
    /\ faulted = FALSE
    /\ wentStale = FALSE
    /\ late = FALSE
    /\ metricTenantIndexErrors = [t \in TenantIDs |-> 0]

\* Every tenant is built by this instance.
OwnsAll == {<<0, t>> : t \in TenantIDs}

\* Tenant 1 holds the blocks bs, the other tenants hold none.
OnlyTenant1(bs) ==
    [t \in TenantIDs |-> [b \in BlockIDs |-> IF t = 1 THEN bs[b] ELSE "none"]]

\* Several tenants with at most one block each: the tenants, the tolerances
\* and the concurrency of the cycle vary (a tenant that the store does not
\* list holds nothing, and the tenants that hold a block are listed last).
InitCycle ==
    \E n \in 0..MaxTenants, k \in {-1, 0, 1}, tce \in {-1, 0, 1}, tc \in {1, 2},
       st \in [TenantIDs -> {"none", "live"}], pv \in BOOLEAN :
        /\ \A t \in TenantIDs : t > n => st[t] = "none"
        /\ \A t \in 1..n : (t < n /\ st[t] = "live") => st[t + 1] = "live"
        /\ Start(Config(k, tce, tc, 1, TRUE, 1, 0, FALSE, 0, FALSE),
                 OwnsAll,
                 SetToSeq(1..n),
                 [t \in TenantIDs |-> [b \in BlockIDs |-> IF b = 1 THEN st[t] ELSE "none"]],
                 [t \in TenantIDs |-> NoIndex],
                 [t \in TenantIDs |-> {}],
                 [t \in TenantIDs |->
                     IF pv /\ t <= n THEN [metas |-> <<Meta(1, "prev")>>, compacted |-> <<>>]
                     ELSE NoList],
                 0, TRUE)

\* What the previous list holds of a block.
StateOf(k) ==
    <<"none", "live", "nocompact", "compacted", "both", "gone", "limbo", "limboC">>[(k \div 3) + 1]

\* What the previous list holds of a block of kind k.
PreviousOf(k) == <<"none", "live", "compacted">>[(k % 3) + 1]

\* The previous list of a tenant whose block b is of kind kn[b].
PreviousList(kn) ==
    LET held(p) == SetToSeq({b \in BlockIDs : PreviousOf(kn[b]) = p})
    IN  [metas |-> [i \in 1..Len(held("live")) |-> Meta(held("live")[i], "prev")],
         compacted |->
             [i \in 1..Len(held("compacted")) |-> Meta(held("compacted")[i], "prev")]]

\* One tenant that this instance builds: every state of its blocks in the
\* store and in the previous list (blocks are interchangeable, so their
\* kinds are taken in ascending order).
InitBlocks(more) ==
    \E kn \in [BlockIDs -> 0..23], skip \in BOOLEAN :
        /\ \A b \in BlockIDs : b + 1 \in BlockIDs => kn[b] <= kn[b + 1]
        /\ Start(Config(1, 0, 1, 1, TRUE, 1, 0, FALSE, 0, skip),
                 OwnsAll,
                 <<1>>,
                 OnlyTenant1([b \in BlockIDs |-> StateOf(kn[b])]),
                 [t \in TenantIDs |-> NoIndex],
                 [t \in TenantIDs |-> {}],
                 [t \in TenantIDs |-> IF t = 1 THEN PreviousList(kn) ELSE NoList],
                 more, FALSE)

\* A tenant index found in the store.
Indexes ==
    {NoIndex} \cup
    {[exists |-> TRUE, age |-> a, metas |-> m, compacted |-> c] :
        a \in 0..MaxAge,
        m \in {<<>>, <<Meta(1, "index")>>},
        c \in {<<>>, <<Meta(2, "index")>>}}

\* One tenant that this instance does not build; the previous list can
\* hold every tenant, the ones the store does not list included.
InitFollower(more) ==
    \E fb \in BOOLEAN, stale \in {0, 1}, idx \in Indexes, tce \in {0, 1},
       st \in {"none", "live", "compacted"}, pv \in BOOLEAN :
        Start(Config(1, tce, 1, 1, fb, 1, stale, FALSE, 0, FALSE),
              {},
              <<1>>,
              OnlyTenant1([b \in BlockIDs |-> IF b = 1 THEN st ELSE "none"]),
              [t \in TenantIDs |-> IF t = 1 THEN idx ELSE NoIndex],
              [t \in TenantIDs |-> {}],
              [t \in TenantIDs |->
                  IF pv THEN [metas |-> <<Meta(1, "prev")>>, compacted |-> <<>>]
                  ELSE NoList],
              more, FALSE)

\* The objects found under a tenant: a key and an age.
ObjectSets ==
    {{}, {[key |-> 1, age |-> 3]}, {[key |-> 1, age |-> 3], [key |-> 2, age |-> 3]},
     {[key |-> 1, age |-> 3], [key |-> 2, age |-> 1]}}

\* One tenant without readable blocks: the reaper and its configuration.
InitReap ==
    \E own \in {{}, OwnsAll}, enabled \in BOOLEAN, age \in {0, 2}, objs \in ObjectSets,
       idx \in {NoIndex, [NoIndex EXCEPT !.exists = TRUE]}, tce \in {0, 1},
       st \in {"none", "limbo", "limboC"}, pv \in BOOLEAN :
        Start(Config(1, tce, 1, 1, TRUE, 1, 0, enabled, age, FALSE),
              own,
              <<1>>,
              OnlyTenant1([b \in BlockIDs |-> IF b = 1 THEN st ELSE "none"]),
              [t \in TenantIDs |-> IF t = 1 THEN idx ELSE NoIndex],
              [t \in TenantIDs |-> IF t = 1 THEN objs ELSE {}],
              [t \in TenantIDs |->
                  IF pv /\ t = 1 THEN [metas |-> <<Meta(1, "prev")>>, compacted |-> <<>>]
                  ELSE NoList],
              0, FALSE)

MaxBuilders == 2

\* One tenant with one live block: the number of builders of the
\* configuration and the jobs the sharder owns vary.
InitSharder ==
    \E builders \in -1..MaxBuilders, own \in SUBSET {<<i, 1>> : i \in 0..MaxBuilders},
       idx \in {NoIndex, [NoIndex EXCEPT !.exists = TRUE, !.metas = <<Meta(1, "index")>>]} :
        Start(Config(1, 0, 1, 1, TRUE, builders, 0, FALSE, 0, FALSE),
              own,
              <<1>>,
              OnlyTenant1([b \in BlockIDs |-> IF b = 1 THEN "live" ELSE "none"]),
              [t \in TenantIDs |-> IF t = 1 THEN idx ELSE NoIndex],
              [t \in TenantIDs |-> {}],
              [t \in TenantIDs |-> NoList],
              0, FALSE)

\* No other instance polls the store.
Alone ==
    /\ inst = [i \in Instances |-> Absent]
    /\ unk = [t \in TenantIDs |-> NotPolling]

\* One call of Do, which the caller may cancel.
Init ==
    (InitCycle \/ InitBlocks(0) \/ InitFollower(0) \/ InitReap \/ InitSharder) /\ Alone

Next ==
    \/ DoTenants
    \/ DoCheck
    \/ DoAdd
    \/ DoCancelled
    \/ DoWait
    \/ Cancel
    \/ \E t \in TenantIDs : Attempt(t)
    \/ \E t \in TenantIDs : GiveUp(t)
    \/ \E t \in TenantIDs : Publish(t)
    \/ \E t \in TenantIDs : TaskDone(t)

Spec == Init /\ [][Next]_vars

\* Two calls of Do in succession, the second on what the first returned.
InitTwice == (InitBlocks(1) \/ InitFollower(1)) /\ Alone

NextTwice ==
    \/ DoTenants
    \/ DoCheck
    \/ DoAdd
    \/ DoWait
    \/ \E t \in TenantIDs : Attempt(t)
    \/ \E t \in TenantIDs : GiveUp(t)
    \/ \E t \in TenantIDs : Publish(t)
    \/ \E t \in TenantIDs : TaskDone(t)
    \/ NextCycle

SpecTwice == InitTwice /\ [][NextTwice]_vars

\* What the store holds of a block that pollUnknown polls.
PolledStates == <<"none", "live", "compacted">>

\* Tenants that this instance builds; tenant 1 holds the blocks, none of
\* them in the previous list: the two bounds on the goroutines vary.
InitFine ==
    \E n \in 1..MaxTenants, tc \in {1, 2}, pc \in {1, 2},
       kn \in [BlockIDs -> 1..Len(PolledStates)] :
        /\ \A b \in BlockIDs : b + 1 \in BlockIDs => kn[b] <= kn[b + 1]
        /\ Start(Config(1, 0, tc, pc, TRUE, 1, 0, FALSE, 0, FALSE),
                 OwnsAll,
                 SetToSeq(1..n),
                 OnlyTenant1([b \in BlockIDs |-> PolledStates[kn[b]]]),
                 [t \in TenantIDs |-> NoIndex],
                 [t \in TenantIDs |-> {}],
                 [t \in TenantIDs |-> NoList],
                 0, FALSE)
        /\ inst = [i \in Instances |-> Absent]
        /\ unk = [t \in TenantIDs |-> NotPolling]

NextFine ==
    \/ DoTenants
    \/ DoCheck
    \/ DoAdd
    \/ DoWait
    \/ \E t \in TenantIDs : AttemptShort(t)
    \/ \E t \in TenantIDs : AttemptList(t)
    \/ \E t \in TenantIDs : UnknownCheck(t)
    \/ \E t \in TenantIDs : \E b \in BlockIDs : UnknownAdd(t, b)
    \/ \E t \in TenantIDs : \E b \in BlockIDs : BlockPoll(t, b)
    \/ \E t \in TenantIDs : \E b \in BlockIDs : BlockDone(t, b)
    \/ \E t \in TenantIDs : UnknownWait(t)
    \/ \E t \in TenantIDs : GiveUp(t)
    \/ \E t \in TenantIDs : Publish(t)
    \/ \E t \in TenantIDs : TaskDone(t)

SpecFine == InitFine /\ [][NextFine]_vars

\* The cycles run under fair scheduling, as <<TenantPollConcurrency,
\* PollConcurrency, TolerateConsecutiveErrors, the caller may cancel>>: two
\* tenants at a time with their blocks polled one at a time; one tenant at
\* a time with two blocks at a time, which the caller may cancel; and one
\* tenant at a time, retried once, with one block at a time.
FairCycles == {<<2, 1, 0, FALSE>>, <<1, 2, 0, TRUE>>, <<1, 1, 1, FALSE>>}

\* A call of Do under fair scheduling.  The store lists every tenant, and
\* tenant 1 holds every block as a live block, none of them in the previous
\* list, so that pollUnknown polls them all; one failed tenant is too many.
InitFair ==
    \E c \in FairCycles :
        /\ Start(Config(0, c[3], c[1], c[2], TRUE, 1, 0, FALSE, 0, FALSE),
                 OwnsAll,
                 SetToSeq(TenantIDs),
                 OnlyTenant1([b \in BlockIDs |-> "live"]),
                 [t \in TenantIDs |-> NoIndex],
                 [t \in TenantIDs |-> {}],
                 [t \in TenantIDs |-> NoList],
                 0, c[4])
        /\ inst = [i \in Instances |-> Absent]
        /\ unk = [t \in TenantIDs |-> NotPolling]

\* The steps of the goroutine that runs Do.
DoStep == DoTenants \/ DoCheck \/ DoAdd \/ DoCancelled \/ DoWait

\* The steps of the goroutine of tenant t, the loop of pollUnknown included.
TenantStep(t) ==
    \/ AttemptShort(t)
    \/ AttemptList(t)
    \/ UnknownCheck(t)
    \/ \E b \in BlockIDs : UnknownAdd(t, b)
    \/ UnknownWait(t)
    \/ GiveUp(t)
    \/ Publish(t)
    \/ TaskDone(t)

\* The steps of the goroutine that pollUnknown starts for block b of t.
BlockStep(t, b) == BlockPoll(t, b) \/ BlockDone(t, b)

NextFair ==
    \/ DoStep
    \/ Cancel
    \/ \E t \in TenantIDs : TenantStep(t)
    \/ \E t \in TenantIDs : \E b \in BlockIDs : BlockStep(t, b)

\* The scheduler lets some goroutine that can take a step take one, and a
\* store operation that was called returns; the caller need not cancel.
\* (A scheduler that runs every goroutine that can take a step does so too.)
Fairness == WF_vars(DoStep \/ \E t \in TenantIDs : TenantStep(t) \/ \E b \in BlockIDs : BlockStep(t, b))

SpecFair == InitFair /\ [][NextFair]_vars /\ Fairness

\* What is in the store of a block while the store does not change: the
\* listing and the reads agree.
StaticStates == <<"none", "live", "nocompact", "compacted", "both">>

\* The previous list of an instance that has not polled before, and of one
\* that polled when every block was live.
InstancePrevious ==
    {NoList, [metas |-> [b \in BlockIDs |-> Meta(b, "prev")], compacted |-> <<>>]}

\* The instances poll tenant 1 together: all of them build its index, or
\* none does and all fall back to polling.
InitShared ==
    \E own \in {{}, OwnsAll}, kn \in [BlockIDs -> 1..Len(StaticStates)],
       skip \in BOOLEAN, pv \in [Instances -> InstancePrevious] :
        /\ \A b \in BlockIDs : b + 1 \in BlockIDs => kn[b] <= kn[b + 1]
        /\ Start(Config(0, 0, 1, 1, TRUE, 1, 0, FALSE, 0, skip),
                 own,
                 <<1>>,
                 OnlyTenant1([b \in BlockIDs |-> StaticStates[kn[b]]]),
                 [t \in TenantIDs |-> NoIndex],
                 [t \in TenantIDs |-> {}],
                 [t \in TenantIDs |-> NoList],
                 0, FALSE)
        /\ inst = [i \in Instances |-> [Absent EXCEPT !.pc = "pull", !.previous = pv[i]]]
        /\ unk = [t \in TenantIDs |-> NotPolling]

NextShared ==
    \/ \E i \in Instances : InstPull(i)
    \/ \E i \in Instances : InstList(i)
    \/ \E i \in Instances : InstRead(i)
    \/ \E i \in Instances : InstWrite(i)

SpecShared == InitShared /\ [][NextShared]_vars

----------------------------------------------------------------------------
\* The properties of a cycle.

\* The tenants whose goroutine recorded a failure: every attempt failed.
FailedTenants ==
    {t \in TenantIDs : tpc[t] \in {"exit", "finished"} /\ result[t].err # "nil"}

\* The goroutines that were admitted and have not called wg.Done().
Running == {t \in TenantIDs : tpc[t] \in {"loop", "publish", "exit"}}

\* C1: with TolerateTenantFailures = K >= 0, when more than K tenants have
\* failed all their attempts in a cycle, Do returns an error and nil maps,
\* whatever the order the goroutines ran in.
C1_TooManyFailures ==
    (/\ dpc = "done"
     /\ cfg.TolerateTenantFailures >= 0
     /\ Cardinality(FailedTenants) > cfg.TolerateTenantFailures)
        => ret.err # "nil" /\ ret.maps = "nil"

\* Two tenants failed with a tolerance of one, and Do gave up the cycle.
C1_Witness ==
    /\ dpc = "done"
    /\ cfg.TolerateTenantFailures = 1
    /\ Cardinality(FailedTenants) = 2
    /\ ret.err = "tooManyFailures"

----------------------------------------------------------------------------
\* The properties of the lists of a tenant.

\* How many entries of list have the id b.
Count(list, b) == Cardinality({i \in 1..Len(list) : list[i].id = b})

\* The attempt whose calls are in calls[t] listed the blocks of t, and the
\* listing did not fail.
Listed(t) ==
    /\ attempts[t] > 0
    /\ <<"Blocks", 0>> \in calls[t]
    /\ <<"error", "Blocks", 0>> \notin calls[t]

\* The previous list holds a live meta for block b of tenant t, and the
\* store lists b as live.
KnownLive(t, b) == Count(previous[t].metas, b) > 0 /\ ListedLive(blocks[t][b])

\* C4: in the maps Do returns, every block id is at most once in the live
\* and the compacted list of a tenant taken together, whatever the listing
\* of the store, the previous list and the tenant index followed.
C4_Unique ==
    (dpc = "done" /\ ret.err = "nil")
        => \A t \in DOMAIN ret.blocklist : \A b \in BlockIDs :
              Count(ret.blocklist[t], b) + Count(ret.compactedBlocklist[t], b) <= 1

C6_FollowsIndex ==
    [][\A t \in TenantIDs :
          (/\ attempts'[t] = attempts[t] + 1
           /\ \A i \in 0..(cfg.TenantIndexBuilders - 1) : <<i, t>> \notin owned
           /\ tindex[t].exists
           /\ cfg.StaleTenantIndex = 0 \/ tindex[t].age <= cfg.StaleTenantIndex
           /\ <<"error", "TenantIndex", 0>> \notin calls'[t])
              => /\ calls'[t] = {<<"TenantIndex", 0>>}
                 /\ result'[t].err = "nil"
                 /\ result'[t].metas = tindex[t].metas
                 /\ result'[t].compacted = tindex[t].compacted
                 /\ tindex'[t] = tindex[t]]_vars

\* An attempt returned the lists of an index of age 1, which hold other
\* blocks than the store lists, and only read the index.
C6_Witness ==
    /\ owned = {}
    /\ tpc[1] = "publish"
    /\ tindex[1].age = 1
    /\ blocks[1][1] = "compacted"
    /\ calls[1] = {<<"TenantIndex", 0>>}
    /\ result[1].metas = <<Meta(1, "index")>>
    /\ result[1].compacted = <<Meta(2, "index")>>

\* The maps a and b hold the same tenants and, for each, the same metas.
SameMetas(a, b) ==
    /\ DOMAIN a = DOMAIN b
    /\ \A t \in DOMAIN a : Range(a[t]) = Range(b[t])

\* C7: when Do has succeeded twice in succession on an unchanged store, the
\* second time with what it returned the first time as previous, the maps
\* of the second call hold the same tenants and for each the same live and
\* compacted metas as the maps of the first.  (The store answered every
\* operation of both calls, and no tenant index followed became stale
\* between them.)
C7_Idempotent ==
    (/\ cycle = 2
     /\ dpc = "done"
     /\ ret.err = "nil"
     /\ ~faulted
     /\ ~wentStale)
        => /\ SameMetas(firstOut.blocklist, ret.blocklist)
           /\ SameMetas(firstOut.compactedBlocklist, ret.compactedBlocklist)

C9_AnyConfiguration ==
    (dpc = "done" /\ tenantList = <<>> /\ ret.err # "tenants")
        => /\ ret.err = "nil"
           /\ ret.maps = "set"
           /\ DOMAIN ret.blocklist = {}
           /\ DOMAIN ret.compactedBlocklist = {}

\* C9 as amended: so it does when TolerateTenantFailures is not negative.
C9_NoTenants ==
    (/\ dpc = "done"
     /\ tenantList = <<>>
     /\ ret.err # "tenants"
     /\ cfg.TolerateTenantFailures >= 0)
        => /\ ret.err = "nil"
           /\ ret.maps = "set"
           /\ DOMAIN ret.blocklist = {}
           /\ DOMAIN ret.compactedBlocklist = {}

\* Do returned empty maps for an empty list with a tolerance of 0, though
\* the caller had cancelled.
C9_Witness ==
    /\ dpc = "done"
    /\ tenantList = <<>>
    /\ cfg.TolerateTenantFailures = 0
    /\ cancelled
    /\ ret.err = "nil"
    /\ ret.maps = "set"
    /\ DOMAIN ret.blocklist = {}

\* C10: a goroutine calls pollTenantAndCreateIndex at most
\* TolerateConsecutiveErrors + 1 times, and again only after a call that
\* returned an error; a call that succeeds ends the loop, and its lists are
\* what the goroutine records; the goroutine records a failure, and takes
\* one off tenantFailuresRemaining, only after TolerateConsecutiveErrors + 1
\* calls that all returned an error.
C10_Retries ==
    [][\A t \in TenantIDs :
          /\ attempts'[t] # attempts[t] =>
                /\ attempts'[t] = attempts[t] + 1
                /\ attempts'[t] <= cfg.TolerateConsecutiveErrors + 1
                /\ tpc[t] = "loop"
                /\ attempts[t] > 0 => result[t].err # "nil"
                /\ result'[t].err = "nil" => tpc'[t] = "publish"
                /\ result'[t].err # "nil" => tpc'[t] = "loop"
          /\ (tpc[t] = "publish" /\ tpc'[t] # "publish") =>
                /\ result'[t] = result[t]
                /\ result[t].err # "nil" =>
                      /\ attempts[t] = cfg.TolerateConsecutiveErrors + 1
                      /\ tenantFailuresRemaining' = tenantFailuresRemaining - 1
                /\ result[t].err = "nil" =>
                      /\ tenantFailuresRemaining' = tenantFailuresRemaining
                      /\ (result[t].metas # <<>> \/ result[t].compacted # <<>>) =>
                            /\ t \in DOMAIN blocklist'
                            /\ blocklist'[t] = result[t].metas
                            /\ compactedBlocklist'[t] = result[t].compacted]_vars

\* A goroutine recorded the lists of its second call, the first having
\* failed, and another a failure after two calls.
C10_Witness ==
    /\ cfg.TolerateConsecutiveErrors = 1
    /\ tpc[1] = "finished"
    /\ attempts[1] = 2
    /\ result[1].err = "nil"
    /\ 1 \in DOMAIN blocklist
    /\ blocklist[1] = result[1].metas
    /\ blocklist[1] # <<>>
    /\ tpc[2] = "finished"
    /\ attempts[2] = 2
    /\ result[2].err # "nil"

----------------------------------------------------------------------------
\* The properties of one call of pollTenantAndCreateIndex.  calls[t] and
\* result[t] are those of the last call made for t, before[t] is the index
\* and the objects it found.

\* This instance builds the index of t.
Builds(t) == \E i \in 0..(cfg.TenantIndexBuilders - 1) : <<i, t>> \in owned

\* The pull of the index by the last call for t, which does not build it,
\* was answered with an error, with ErrDoesNotExist, or with a stale index.
PullFailed(t) ==
    /\ attempts[t] > 0
    /\ ~Builds(t)
    /\ \/ <<"error", "TenantIndex", 0>> \in calls[t]
       \/ ~before[t].index.exists
       \/ cfg.StaleTenantIndex # 0 /\ before[t].index.age > cfg.StaleTenantIndex

PullCalls == {<<"TenantIndex", 0>>, <<"error", "TenantIndex", 0>>}

\* C11: when the pull of the index of a tenant that this instance does not
\* build fails, then without PollFallback the call fails and has made no
\* other call to the store than the pull; with PollFallback it lists the
\* blocks and goes on as a builder does: it returns what the path of a
\* builder returns, writes the index when the poll succeeded, and runs the
\* reaper when both lists are empty.
C11_FailedPull ==
    \A t \in TenantIDs :
        PullFailed(t) =>
            IF ~cfg.PollFallback
            THEN /\ result[t].err # "nil"
                 /\ calls[t] \subseteq PullCalls
                 /\ tindex[t] = before[t].index
                 /\ objects[t] = before[t].objects
            ELSE /\ <<"Blocks", 0>> \in calls[t]
                 /\ \E o \in BuildTenantIndex(bgCtx, t, previous, before[t].index,
                                              before[t].objects, {}) :
                       /\ result[t] = [metas |-> o.metas, compacted |-> o.compacted,
                                       err |-> o.err]
                       /\ calls[t] \ PullCalls = o.calls
                       /\ tindex[t] = o.index
                       /\ objects[t] = o.objects
                 /\ result[t].err = "nil" =>
                       /\ <<"WriteTenantIndex", 0>> \in calls[t]
                       /\ (/\ result[t].metas = <<>>
                           /\ result[t].compacted = <<>>
                           /\ cfg.EmptyTenantDeletionEnabled) =>
                              <<"Find", 0>> \in calls[t]

\* A follower that found no index polled the blocks, read the meta of
\* block 1 and wrote the index.
C11_Witness ==
    /\ owned = {}
    /\ cfg.PollFallback
    /\ attempts[1] = 1
    /\ ~before[1].index.exists
    /\ calls[1] = {<<"TenantIndex", 0>>, <<"Blocks", 0>>, <<"BlockMeta", 1>>,
                   <<"WriteTenantIndex", 0>>}
    /\ result[1] = [metas |-> <<Meta(1, "store")>>, compacted |-> <<>>, err |-> "nil"]
    /\ tindex[1].exists
    /\ tindex[1].metas = <<Meta(1, "store")>>

\* C12: an index that was read is rejected exactly when StaleTenantIndex is
\* not 0 and the age of the index is above it; an index that is not rejected
\* is returned as it is; a rejected one is handled as a failed read is: the
\* call fails without PollFallback, which takes one of the retries, and
\* polls the blocks with it.
C12_StaleIndex ==
    \A t \in TenantIDs :
        (/\ attempts[t] > 0
         /\ ~Builds(t)
         /\ <<"error", "TenantIndex", 0>> \notin calls[t]
         /\ before[t].index.exists)
            => IF cfg.StaleTenantIndex # 0
                  /\ before[t].index.age > cfg.StaleTenantIndex
               THEN IF cfg.PollFallback
                    THEN <<"Blocks", 0>> \in calls[t]
                    ELSE /\ result[t].err = "noFallback"
                         /\ calls[t] = {<<"TenantIndex", 0>>}
                         /\ consecutiveErrorsRemaining[t] =
                                cfg.TolerateConsecutiveErrors - attempts[t]
                         /\ tpc[t] \in {"exit", "finished"} =>
                                /\ attempts[t] = cfg.TolerateConsecutiveErrors + 1
                                /\ tenantFailuresRemaining < cfg.TolerateTenantFailures
               ELSE /\ result[t].err = "nil"
                    /\ calls[t] = {<<"TenantIndex", 0>>}
                    /\ result[t].metas = before[t].index.metas
                    /\ result[t].compacted = before[t].index.compacted

\* An index of age 2 was rejected twice with StaleTenantIndex = 1, and the
\* tenant failed.
C12_Witness ==
    /\ owned = {}
    /\ cfg.StaleTenantIndex = 1
    /\ ~cfg.PollFallback
    /\ before[1].index.exists
    /\ before[1].index.age = 2
    /\ attempts[1] = 2
    /\ calls[1] = {<<"TenantIndex", 0>>}
    /\ result[1].err = "noFallback"
    /\ tpc[1] = "finished"

\* The last call for t polled the blocks, and the write of the index
\* returned an error.
WriteFailed(t) == attempts[t] > 0 /\ <<"error", "WriteTenantIndex", 0>> \in calls[t]

\* The lists of the last call for t are those of a poll of the blocks.
ReturnsPolled(t) ==
    \E p \in pollTenantBlocks(bgCtx, t, previous) :
        /\ ~p.err
        /\ p.calls \subseteq calls[t]
        /\ result[t].metas = p.metas
        /\ result[t].compacted = p.compacted

\* C13 as stated: a call whose poll of the blocks succeeded and whose write
\* of the index failed succeeds and returns the lists of the poll.
C13_StillSucceeds ==
    \A t \in TenantIDs :
        WriteFailed(t) => result[t].err = "nil" /\ ReturnsPolled(t)

\* C13 as amended: such a call succeeds and returns the lists of the poll
\* (looked at when the call has just returned), and the retry loop ends,
\* unless both lists are empty and the reaper, which then runs, returns an
\* error; the index is left as it was.
C13_WriteFailureIgnored ==
    \A t \in TenantIDs :
        WriteFailed(t) =>
            /\ tindex[t] = before[t].index
            /\ result[t].err \in {"nil", "deleteTenant"}
            /\ result[t].err = "nil" =>
                  /\ tpc[t] # "loop"
                  /\ tpc[t] = "publish" => ReturnsPolled(t)
            /\ result[t].err = "deleteTenant" =>
                  /\ cfg.EmptyTenantDeletionEnabled
                  /\ \E p \in pollTenantBlocks(bgCtx, t, previous) :
                        ~p.err /\ p.metas = <<>> /\ p.compacted = <<>>
                  /\ \/ cfg.EmptyTenantDeletionAge = 0
                     \/ <<"error", "Find", 0>> \in calls[t]
                     \/ \E c \in calls[t] : c[1] = "error" /\ c[2] = "Delete"

\* The first call for tenant 1 returned block 1 though its write of the
\* index failed, and the goroutine recorded the block.
C13_Witness ==
    /\ tpc[1] = "finished"
    /\ attempts[1] = 1
    /\ calls[1] = {<<"Blocks", 0>>, <<"BlockMeta", 1>>, <<"WriteTenantIndex", 0>>,
                   <<"error", "WriteTenantIndex", 0>>}
    /\ result[1] = [metas |-> <<Meta(1, "store")>>, compacted |-> <<>>, err |-> "nil"]
    /\ ~tindex[1].exists
    /\ 1 \in DOMAIN blocklist
    /\ blocklist[1] = <<Meta(1, "store")>>

----------------------------------------------------------------------------
\* The properties of the reaper.

\* The keys the last call for t asked the store to delete.
DeleteCalls(t) == {c \in calls[t] : c[1] = "Delete"}

\* C14: a call asks the store to delete an object of T only when
\* EmptyTenantDeletionEnabled is set, EmptyTenantDeletionAge is above 0, the
\* walk of the objects of T returned no error and met no object that is not
\* older than that age, the read of the index that follows returned
\* ErrDoesNotExist, and the walk met the object, older than that age; an
\* object leaves the store only by such a delete.
C14_DeletesOnlyWhen ==
    \A t \in TenantIDs :
        /\ \A c \in DeleteCalls(t) :
              /\ cfg.EmptyTenantDeletionEnabled
              /\ cfg.EmptyTenantDeletionAge > 0
              /\ <<"Find", 0>> \in calls[t]
              /\ <<"error", "Find", 0>> \notin calls[t]
              /\ \A o \in before[t].objects : o.age > cfg.EmptyTenantDeletionAge
              /\ <<"TenantIndex.deleteTenant", 0>> \in calls[t]
              /\ <<"error", "TenantIndex.deleteTenant", 0>> \notin calls[t]
              /\ ~tindex[t].exists
              /\ \E o \in before[t].objects :
                    o.key = c[2] /\ o.age > cfg.EmptyTenantDeletionAge
        /\ objects[t] \subseteq before[t].objects \/ attempts[t] = 0
        /\ attempts[t] > 0 =>
              \A o \in before[t].objects \ objects[t] :
                  /\ <<"Delete", o.key>> \in calls[t]
                  /\ <<"error", "Delete", o.key>> \notin calls[t]

\* A call deleted the two objects of tenant 1, both older than the age.
C14_Witness ==
    /\ attempts[1] > 0
    /\ before[1].objects = {[key |-> 1, age |-> 3], [key |-> 2, age |-> 3]}
    /\ DeleteCalls(1) = {<<"Delete", 1>>, <<"Delete", 2>>}
    /\ \A c \in calls[1] : ~(c[1] = "error" /\ c[2] = "Delete")
    /\ objects[1] = {}
    /\ result[1].err = "nil"

C16_NoCompactSkipped ==
    (dpc = "done" /\ ret.err = "nil" /\ cfg.SkipNoCompactBlocks)
        => \A t \in DOMAIN ret.blocklist : \A b \in BlockIDs :
              HasNoCompactFlag(blocks[t][b]) => Count(ret.blocklist[t], b) = 0

\* C17: when the reaper refuses to run because EmptyTenantDeletionEnabled
\* is set with EmptyTenantDeletionAge = 0, the goroutine of the tenant does
\* not call pollTenantAndCreateIndex again: it has made one call when it
\* leaves the retry loop.
C17_NoRetryOnConfigError ==
    \A t \in TenantIDs :
        (/\ tpc[t] \in {"publish", "exit", "finished"}
         /\ cfg.EmptyTenantDeletionEnabled
         /\ cfg.EmptyTenantDeletionAge = 0
         /\ result[t].err = "deleteTenant")
            => attempts[t] = 1

\* The last call for t listed the blocks and read the metas of the unknown
\* ones without an error.
PollSucceeded(t) ==
    /\ attempts[t] > 0
    /\ <<"Blocks", 0>> \in calls[t]
    /\ \A c \in calls[t] :
          c[1] = "error" =>
              c[2] \notin {"Blocks", "HasNoCompactFlag", "BlockMeta", "CompactedBlockMeta"}

\* C18: the cancellation of the caller does not reach a goroutine that was
\* admitted: after the caller has cancelled, the call a goroutine is about
\* to make can still run through with every operation of the store
\* answering, and a call whose poll of the blocks succeeded has gone on to
\* write the index.
C18_Detached ==
    \A t \in TenantIDs :
        /\ (cancelled /\ tpc[t] = "loop" /\ consecutiveErrorsRemaining[t] >= 0) =>
              \E o \in pollTenantAndCreateIndex(TaskCtx, t, previous, tindex[t],
                                                 objects[t]) :
                  \A c \in o.calls : c[1] # "error"
        /\ PollSucceeded(t) => <<"WriteTenantIndex", 0>> \in calls[t]

\* Do returned the cancellation error; the call for tenant 1, made after
\* the caller had cancelled, polled block 1 and wrote the index.
C18_Witness ==
    /\ dpc = "done"
    /\ ret.err = "canceled"
    /\ late
    /\ attempts = [t \in TenantIDs |-> IF t = 1 THEN 1 ELSE 0]
    /\ calls[1] = {<<"Blocks", 0>>, <<"BlockMeta", 1>>, <<"WriteTenantIndex", 0>>}
    /\ result[1].err = "nil"
    /\ tindex[1].exists
    /\ tindex[1].metas = <<Meta(1, "store")>>

----------------------------------------------------------------------------
\* The properties of several instances on the same store.

\* Instance i has returned the lists of a call that succeeded.
InstSucceeded(i) == inst[i].pc = "done" /\ inst[i].result.err = "nil"

\* C19: when the instances poll the same tenant of a store whose blocks do
\* not change, all as builders or all falling back to polling, then however
\* their listings, reads and writes interleave, the instances whose call
\* succeeds return the same live blocks and the same compacted blocks, and
\* once all have returned the index in the store holds those blocks.
C19_SameSets ==
    \A i, j \in Instances :
        (InstSucceeded(i) /\ InstSucceeded(j)) =>
            /\ Ids(inst[i].result.metas) = Ids(inst[j].result.metas)
            /\ Ids(inst[i].result.compacted) = Ids(inst[j].result.compacted)
            /\ (/\ \A k \in Instances : inst[k].pc = "done"
                /\ tindex[Shared].exists) =>
                  /\ Ids(tindex[Shared].metas) = Ids(inst[i].result.metas)
                  /\ Ids(tindex[Shared].compacted) = Ids(inst[i].result.compacted)

----------------------------------------------------------------------------
\* The properties of the two levels of goroutines.

\* The goroutines of pollUnknown for tenant t that have been started and
\* have not called bg.Done().
FetchesRunning(t) == {b \in DOMAIN unk[t].bpc : unk[t].bpc[b] \in {"run", "exit"}}

\* C20: at every moment of a cycle at most TenantPollConcurrency goroutines
\* of tenants are running, and in every call of pollUnknown at most
\* PollConcurrency goroutines of blocks are.
C20_Bounded ==
    /\ Cardinality(Running) <= cfg.TenantPollConcurrency
    /\ \A t \in TenantIDs : Cardinality(FetchesRunning(t)) <= cfg.PollConcurrency

\* Two tenants are polled at once, and the call for tenant 1 has both its
\* blocks in flight, each at its bound of 2; with a bound of 1 the loop of
\* pollUnknown waits for the slot.
C20_Witness ==
    /\ cfg.TenantPollConcurrency = 2
    /\ cfg.PollConcurrency = 2
    /\ Cardinality(Running) = 2
    /\ Cardinality(FetchesRunning(1)) = 2

----------------------------------------------------------------------------
\* The properties of a cycle that follows another on the same store.

\* The second of two cycles for a tenant t that this instance builds: the
\* listing of every block of t agrees with what can be read of it, and no
\* operation of either cycle returned an error.
SteadyState(t) ==
    /\ cycle = 2
    /\ ~faulted
    /\ Builds(t)
    /\ attempts[t] > 0
    /\ \A b \in BlockIDs : blocks[t][b] \in Range(StaticStates)

\* The lists a and b hold the same metas, each as often.
SameList(a, b) == Len(a) = Len(b) /\ Range(a) = Range(b)

\* C21: in the second of two cycles on an unchanged store, with what the
\* first returned as previous, the call for a tenant that this instance
\* builds reads no block meta and no compacted block meta, returns the
\* metas that previous holds, and writes the index once.
C21_SteadyState ==
    \A t \in TenantIDs :
        SteadyState(t) =>
            /\ \A c \in calls[t] : c[1] \notin {"BlockMeta", "CompactedBlockMeta"}
            /\ result[t].err = "nil"
            /\ SameList(result[t].metas, previous[t].metas)
            /\ SameList(result[t].compacted, previous[t].compacted)
            /\ attempts[t] = 1
            /\ <<"WriteTenantIndex", 0>> \in calls[t]

----------------------------------------------------------------------------
\* The properties of the counters.

\* C22: when a tenant has failed all its attempts in a cycle, one was taken
\* off tenantFailuresRemaining for it, and an error counter labelled with
\* the tenant was incremented in the cycle, whichever operation failed.
C22_FailureCounted ==
    /\ (dpc # "start" /\ ret.err # "tenants") =>
          tenantFailuresRemaining =
              cfg.TolerateTenantFailures - Cardinality(FailedTenants)
    /\ \A t \in FailedTenants :
          metricTenantIndexErrors[t] + metricBlocklistErrors(t) > 0

----------------------------------------------------------------------------
\* The properties of the two maps.

\* The entry of tenant t in the map m, if there is one.
Entry(m, t) == IF t \in DOMAIN m THEN <<m[t]>> ELSE <<>>

\* C23: the entries of a tenant in the two maps are set in one step, by the
\* goroutine of the tenant, and are both lists of the last call it made,
\* which succeeded, or both lists of the tenant in previous; the maps Do
\* returns when it succeeds are these maps.
C23_Paired ==
    [][/\ \A t \in TenantIDs :
             (\/ Entry(blocklist', t) # Entry(blocklist, t)
              \/ Entry(compactedBlocklist', t) # Entry(compactedBlocklist, t)) =>
                 /\ tpc[t] = "publish"
                 /\ t \in DOMAIN blocklist'
                 /\ t \in DOMAIN compactedBlocklist'
                 /\ IF result[t].err = "nil"
                    THEN /\ attempts[t] > 0
                         /\ blocklist'[t] = result[t].metas
                         /\ compactedBlocklist'[t] = result[t].compacted
                    ELSE /\ blocklist'[t] = previous[t].metas
                         /\ compactedBlocklist'[t] = previous[t].compacted
       /\ \A t \in TenantIDs :
             (tpc[t] \in {"exit", "finished"} /\ tpc'[t] # "idle") =>
                 result'[t] = result[t]
       /\ (dpc # "done" /\ dpc' = "done" /\ ret'.err = "nil") =>
             /\ ret'.blocklist = blocklist
             /\ ret'.compactedBlocklist = compactedBlocklist]_vars

\* Do returned for tenant 1 the two lists of the index that the second call
\* of its goroutine pulled, the first call having failed.
C23_Witness ==
    /\ dpc = "done"
    /\ ret.err = "nil"
    /\ attempts[1] = 2
    /\ result[1].err = "nil"
    /\ 1 \in DOMAIN ret.blocklist
    /\ ret.blocklist[1] = <<Meta(1, "index")>>
    /\ ret.compactedBlocklist[1] = <<Meta(2, "index")>>

----------------------------------------------------------------------------
\* The properties of the early exit.

\* C24 as stated: wg.Add(1) admits a goroutine only while
\* tenantFailuresRemaining is not negative, and a call of Do in which it
\* went negative ends with the error of too many failures.
C24_NoneAdmittedOnceNegative ==
    [][/\ (dpc = "add" /\ dpc' = "check") => tenantFailuresRemaining >= 0
       /\ (dpc # "done" /\ dpc' = "done" /\ tenantFailuresRemaining < 0
             /\ ret'.err # "tenants") =>
             ret'.err = "tooManyFailures"]_vars

\* C24 as amended: the head of an iteration of the loop goes on to wg.Add(1)
\* only when it finds tenantFailuresRemaining not negative (and the caller
\* not cancelled); when it finds it negative the loop ends, and Do admits
\* no goroutine any more, waits and returns the error of too many failures
\* and nil maps.  A goroutine whose iteration passed the check can still be
\* admitted after the counter went negative; the counter never goes up, and
\* a call of Do in which it went negative returns nil maps and either that
\* error or, when the loop saw the cancellation first, the cancellation
\* error.
C24_CheckedBeforeAdmission ==
    [][/\ (dpc = "check" /\ dpc' = "add") =>
             /\ tenantFailuresRemaining >= 0
             /\ ~cancelled
             /\ next <= Len(tenantList)
       /\ (dpc = "check" /\ dpc' # "check" /\ next <= Len(tenantList)
             /\ ~cancelled /\ tenantFailuresRemaining < 0) =>
             dpc' = "wait"
       /\ dpc = "wait" =>
             /\ dpc' \in {"wait", "done"}
             /\ next' = next
             /\ \A t \in TenantIDs : tpc[t] = "idle" => tpc'[t] = "idle"
       /\ (dpc = "wait" /\ dpc' = "done" /\ tenantFailuresRemaining < 0) =>
             ret' = ReturnedError("tooManyFailures")
       /\ dpc \notin {"start", "done"} =>
             tenantFailuresRemaining' <= tenantFailuresRemaining
       /\ (dpc \notin {"start", "done"} /\ dpc' = "done"
             /\ tenantFailuresRemaining < 0) =>
             /\ ret'.err \in {"tooManyFailures", "canceled"}
             /\ ret'.maps = "nil"]_vars

\* With one slot and no failing tenant tolerated, tenant 1 failed before
\* tenant 2, which had passed the check, was admitted; Do returned the error
\* of too many failures.
C24_Witness ==
    /\ dpc = "done"
    /\ ret.err = "tooManyFailures"
    /\ cfg.TenantPollConcurrency = 1
    /\ cfg.TolerateTenantFailures = 0
    /\ tpc[1] = "finished"
    /\ result[1].err # "nil"
    /\ attempts[2] > 0

----------------------------------------------------------------------------
\* The properties of pollUnknown.

\* C25: the loop of pollUnknown goes on to bg.Add(1) only when it finds no
\* recorded error, and when it finds one it ends and starts no goroutine
\* any more; an error that a goroutine recorded stays recorded, and a call
\* of pollUnknown that ends with one makes the call of
\* pollTenantAndCreateIndex fail without lists and without a write of the
\* index, which takes one of the retries.
C25_StopsOnError ==
    [][\A t \in TenantIDs :
          /\ (unk[t].pc = "check" /\ unk'[t].pc = "add") => unk[t].errs = {}
          /\ (unk[t].pc = "check" /\ unk'[t].pc # "check" /\ unk[t].errs # {}) =>
                unk'[t].pc = "wait"
          /\ unk[t].pc = "wait" =>
                /\ unk'[t].pc \in {"wait", "idle"}
                /\ unk'[t].pc = "wait" =>
                      \A b \in DOMAIN unk[t].bpc :
                          unk[t].bpc[b] = "idle" => unk'[t].bpc[b] = "idle"
          /\ (unk[t].pc # "idle" /\ unk'[t].pc # "idle") =>
                unk[t].errs \subseteq unk'[t].errs
          /\ (unk[t].pc = "wait" /\ unk'[t].pc = "idle" /\ unk[t].errs # {}) =>
                /\ result'[t] = [NoResult EXCEPT !.err = "pollTenantBlocks"]
                /\ <<"WriteTenantIndex", 0>> \notin calls'[t]
                /\ tindex'[t] = tindex[t]
                /\ tpc'[t] = "loop"
                /\ consecutiveErrorsRemaining'[t] = consecutiveErrorsRemaining[t] - 1]_vars

\* The call for tenant 1 failed after the read of block 1 returned an
\* error: block 2, live in the store, was not polled, and no index was
\* written.
C25_Witness ==
    /\ result[1].err = "pollTenantBlocks"
    /\ unk[1].pc = "idle"
    /\ blocks[1][2] = "live"
    /\ calls[1] = {<<"Blocks", 0>>, <<"BlockMeta", 1>>, <<"error", "BlockMeta", 1>>}
    /\ ~tindex[1].exists

----------------------------------------------------------------------------
\* The properties of the sharder.

\* C26: a call of pollTenantAndCreateIndex lists the blocks of the tenant
\* without pulling its index first exactly when the sharder owns one of the
\* jobs 0 .. TenantIndexBuilders - 1 of the tenant; with TenantIndexBuilders
\* <= 0, or a sharder that owns nothing, every call pulls the index first.
C26_BuilderIffOwns ==
    \A t \in TenantIDs :
        attempts[t] > 0 =>
            /\ <<"TenantIndex", 0>> \notin calls[t] <=> Builds(t)
            /\ Builds(t) => <<"Blocks", 0>> \in calls[t]
            /\ (cfg.TenantIndexBuilders <= 0 \/ owned = {}) =>
                  <<"TenantIndex", 0>> \in calls[t]

\* With two builders the sharder owns job 1 of tenant 1 only, and the call
\* polled the blocks without a pull of the index that is in the store.
C26_Witness ==
    /\ cfg.TenantIndexBuilders = 2
    /\ owned = {<<1, 1>>}
    /\ attempts[1] = 1
    /\ before[1].index.exists
    /\ calls[1] = {<<"Blocks", 0>>, <<"BlockMeta", 1>>, <<"WriteTenantIndex", 0>>}
    /\ result[1].metas = <<Meta(1, "store")>>

----------------------------------------------------------------------------
\* The properties of pollBlock.

\* Block b of tenant t is listed as compacted and previous holds no
\* compacted meta of it: pollUnknown polls it as compacted.
UnknownCompacted(t, b) ==
    ListedCompacted(blocks[t][b]) /\ Count(previous[t].compacted, b) = 0

\* Block b of tenant t is listed as live, previous holds no live meta of it,
\* and pollUnknown does not poll it as compacted.
UnknownLive(t, b) ==
    /\ ListedLive(blocks[t][b])
    /\ Count(previous[t].metas, b) = 0
    /\ ~UnknownCompacted(t, b)

----------------------------------------------------------------------------
\* The properties of the return of Do.

\* C28: when Do returns, on the cancellation, after the early exit or at
\* the end of the loop, no goroutine it admitted is still running; once it
\* has returned, no map entry is written and no call of
\* pollTenantAndCreateIndex is made or touches the store.
C28_ReturnsAfterTasks ==
    [][/\ dpc' = "done" => Running' = {}
       /\ (dpc = "done" /\ dpc' = "done") =>
             /\ blocklist' = blocklist
             /\ compactedBlocklist' = compactedBlocklist
             /\ attempts' = attempts
             /\ calls' = calls
             /\ tindex' = tindex
             /\ objects' = objects
             /\ ret' = ret]_vars

\* Do left the loop early on too many failures, with tenants not yet
\* admitted, and returned once the goroutines it had admitted were done.
C28_Witness ==
    /\ dpc = "done"
    /\ ret.err = "tooManyFailures"
    /\ next <= Len(tenantList)
    /\ \E t \in TenantIDs : tpc[t] = "finished" /\ attempts[t] > 0
    /\ \A t \in TenantIDs : tpc[t] \in {"idle", "finished"}

----------------------------------------------------------------------------
\* The properties of the write of the index.

\* The last call for t asked the store to write the index.
Wrote(t) == <<"WriteTenantIndex", 0>> \in calls[t]

\* The last call for t made a call of the reaper to the store.
ReaperCalls(t) ==
    {c \in calls[t] : c[1] \in {"Find", "TenantIndex.deleteTenant", "Delete"}}

\* C29: a call writes the index only when its poll of the blocks succeeded
\* (the listing returned no error, and no read of an unknown block did),
\* and a call whose poll failed leaves the index as it found it; the lists
\* of an index that was written are the lists the call returns; the reaper
\* runs after the write: it makes its calls in a call that wrote, and after
\* a write that succeeded it finds the index and deletes nothing.
C29_WritesAfterPoll ==
    [](\A t \in TenantIDs :
        attempts[t] > 0 =>
            /\ Wrote(t) => PollSucceeded(t)
            /\ ~PollSucceeded(t) => tindex[t] = before[t].index
            /\ (Wrote(t) /\ ~WriteFailed(t)) =>
                  tindex[t] = [exists |-> TRUE, age |-> 0,
                               metas |-> result[t].metas,
                               compacted |-> result[t].compacted]
            /\ ReaperCalls(t) # {} => Wrote(t)
            /\ (ReaperCalls(t) # {} /\ ~WriteFailed(t)) =>
                  /\ DeleteCalls(t) = {}
                  /\ objects[t] = before[t].objects)

\* The call for tenant 1 polled a live and a compacted block and wrote the
\* index with the two lists it returned.
C29_Witness ==
    /\ attempts[1] = 1
    /\ calls[1] = {<<"Blocks", 0>>, <<"BlockMeta", 1>>, <<"CompactedBlockMeta", 2>>,
                   <<"WriteTenantIndex", 0>>}
    /\ result[1] = [metas |-> <<Meta(1, "store")>>,
                    compacted |-> <<Meta(2, "store")>>, err |-> "nil"]
    /\ ~before[1].index.exists
    /\ tindex[1].metas = <<Meta(1, "store")>>
    /\ tindex[1].compacted = <<Meta(2, "store")>>

----------------------------------------------------------------------------
\* The properties of the keys of the maps.

\* The last call for t succeeded and returned a live or a compacted meta.
SucceededWithMetas(t) ==
    /\ attempts[t] > 0
    /\ result[t].err = "nil"
    /\ Len(result[t].metas) + Len(result[t].compacted) > 0

\* C30: the two maps Do returns when it succeeds have the same keys: the
\* tenants of the listing whose last call succeeded and returned a live or
\* a compacted meta, and the tenants of the listing that failed all their
\* calls, whatever previous holds of them; a tenant whose call succeeded
\* with two empty lists has no entry, nor has a tenant that the store does
\* not list, whatever previous holds of it.
C30_KeySets ==
    (dpc = "done" /\ ret.err = "nil") =>
        /\ DOMAIN ret.blocklist = DOMAIN ret.compactedBlocklist
        /\ DOMAIN ret.blocklist =
               {t \in Range(tenantList) : SucceededWithMetas(t) \/ result[t].err # "nil"}
        /\ \A t \in TenantIDs \ Range(tenantList) : t \notin DOMAIN ret.blocklist
        /\ \A t \in Range(tenantList) :
              (result[t].err = "nil" /\ result[t].metas = <<>>
                  /\ result[t].compacted = <<>>) =>
                  t \notin DOMAIN ret.blocklist

\* Do returned two empty maps: the call for tenant 1 pulled an index with
\* two empty lists, and tenant 2 is not in the listing; previous holds a
\* block of each.
C30_Witness ==
    /\ dpc = "done"
    /\ ret.err = "nil"
    /\ tenantList = <<1>>
    /\ attempts[1] = 1
    /\ result[1] = NoResult
    /\ calls[1] = {<<"TenantIndex", 0>>}
    /\ previous[1].metas # <<>>
    /\ previous[2].metas # <<>>
    /\ DOMAIN ret.blocklist = {}
    /\ DOMAIN ret.compactedBlocklist = {}


----------------------------------------------------------------------------
\* The termination of Do.

\* C31: with TenantPollConcurrency >= 1 and PollConcurrency >= 1, finite
\* listings of the tenants and of the blocks, and store operations that
\* return, every call of Do returns under fair scheduling: neither wg.Add
\* nor bg.Add nor the two waits block for ever, and the retry loop ends.
C31_DoReturns == <>(dpc = "done")

\* Do returned its maps after two tenants went through a wait group of
\* capacity 1, the two blocks of tenant 1 went through one of capacity 1,
\* and the first call for tenant 1 failed and was retried.
C31_Witness ==
    /\ dpc = "done"
    /\ ret.err = "nil"
    /\ cfg.TenantPollConcurrency = 1
    /\ cfg.PollConcurrency = 1
    /\ Len(tenantList) = 2
    /\ attempts[1] = 2
    /\ {<<"BlockMeta", 1>>, <<"BlockMeta", 2>>} \subseteq calls[1]
    /\ attempts[2] = 1
    /\ \A t \in TenantIDs : tpc[t] \in {"idle", "finished"}

====
